---------------------------- MODULE Spec2Model ----------------------------
(***************************************************************************)
(* Model of dgraph-backup-tool: a replica takes part in a leader election, *)
(* lastRun a ticker-driven export loop while it leads, serves on-demand       *)
(* export requests over HTTP, and sweeps temporary export directories.     *)
(*                                                                         *)
(* Sources: src/unnamed/part_001 (package main) and                        *)
(*          src/internal/dgraph/export/export.go (package export).         *)
(***************************************************************************)
EXTENDS Integers, Sequences, FiniteSets, TLC

(***************************************************************************)
(* Bounds of the model.                                                    *)
(***************************************************************************)
\* replicas sharing one lease name
NumReplicas == 2
\* HTTP requests a replica receives over its lifetime
MaxRequests == 2
\* ticks one export loop honours
MaxTimerRuns == 2
\* directories whose removal fails in one sweep of a running replica
MaxFailing == 1

Replicas == 1..NumReplicas
ReqIds == 1..MaxRequests

Nil == "nil"

(***************************************************************************)
(* Characters and names.  A name or a pattern is a sequence of one-        *)
(* character strings.  Alphabet lists the characters in code-point order,  *)
(* which is the order character ranges and os.ReadDir's sort use.          *)
(***************************************************************************)
Alphabet ==
    << "*", "+", "-", "0", "1", "2", "3", "9", "?", "[", "\\", "]", "^",
       "e", "k", "o", "p", "r", "t", "x" >>

Code(c) == CHOOSE i \in DOMAIN Alphabet : Alphabet[i] = c

RECURSIVE NameLess(_, _)
\* byte-wise lexicographic order of two names (os.ReadDir sorts by filename)
NameLess(a, b) ==
    IF b = << >> THEN FALSE
    ELSE IF a = << >> THEN TRUE
    ELSE IF Head(a) # Head(b) THEN Code(Head(a)) < Code(Head(b))
    ELSE NameLess(Tail(a), Tail(b))

(***************************************************************************)
(* filepath.Match(pattern, name): shell-style glob matching of a whole     *)
(* name (part_001:208).  The pattern is first read as a sequence of terms  *)
(*   '*'  '?'  '[' ['^'] ranges ']'  c  '\\' c                             *)
(* and a malformed pattern is ErrBadPattern.  A name returned by           *)
(* os.ReadDir holds no path separator, so '*' and '?' match any character  *)
(* of it.                                                                  *)
(***************************************************************************)
BadParse == [bad |-> TRUE, terms |-> << >>, next |-> 0]

\* getEsc: one character of a range, possibly escaped, at index i of p; a
\* character with nothing after it is an error (the class is not closed).
GetEsc(p, i) ==
    IF i > Len(p) \/ p[i] = "-" \/ p[i] = "]" THEN [bad |-> TRUE, c |-> "", next |-> 0]
    ELSE LET j == IF p[i] = "\\" THEN i + 1 ELSE i
         IN  IF j > Len(p) \/ j + 1 > Len(p)
             THEN [bad |-> TRUE, c |-> "", next |-> 0]
             ELSE [bad |-> FALSE, c |-> p[j], next |-> j + 1]

RECURSIVE ParseRanges(_, _, _)
\* the ranges of a character class from index i up to its closing ']'
ParseRanges(p, i, acc) ==
    IF i <= Len(p) /\ p[i] = "]" /\ Len(acc) > 0
    THEN [bad |-> FALSE, terms |-> acc, next |-> i + 1]
    ELSE LET lo == GetEsc(p, i)
         IN  IF lo.bad THEN BadParse
             ELSE IF p[lo.next] = "-"
                  THEN LET hi == GetEsc(p, lo.next + 1)
                       IN  IF hi.bad THEN BadParse
                           ELSE ParseRanges(p, hi.next, Append(acc, <<lo.c, hi.c>>))
                  ELSE ParseRanges(p, lo.next, Append(acc, <<lo.c, lo.c>>))

RECURSIVE ParseTerms(_, _, _)
\* the terms of pattern p from index i on
ParseTerms(p, i, acc) ==
    IF i > Len(p) THEN [bad |-> FALSE, terms |-> acc, next |-> i]
    ELSE IF p[i] = "*" THEN ParseTerms(p, i + 1, Append(acc, [t |-> "star"]))
    ELSE IF p[i] = "?" THEN ParseTerms(p, i + 1, Append(acc, [t |-> "any"]))
    ELSE IF p[i] = "["
         THEN LET neg == i + 1 <= Len(p) /\ p[i + 1] = "^"
                  rs  == ParseRanges(p, IF neg THEN i + 2 ELSE i + 1, << >>)
              IN  IF rs.bad THEN BadParse
                  ELSE ParseTerms(p, rs.next,
                           Append(acc, [t |-> "class", neg |-> neg, ranges |-> rs.terms]))
    ELSE IF p[i] = "\\"
         THEN IF i + 1 > Len(p) THEN BadParse
              ELSE ParseTerms(p, i + 2, Append(acc, [t |-> "lit", c |-> p[i + 1]]))
    ELSE ParseTerms(p, i + 1, Append(acc, [t |-> "lit", c |-> p[i]]))

InRanges(c, ranges) ==
    \E k \in DOMAIN ranges :
        Code(ranges[k][1]) <= Code(c) /\ Code(c) <= Code(ranges[k][2])

RECURSIVE MatchTerms(_, _)
\* whether the terms ts match the whole of name n
MatchTerms(ts, n) ==
    IF ts = << >> THEN n = << >>
    ELSE LET h == Head(ts)
         IN  IF h.t = "star"
             THEN MatchTerms(Tail(ts), n) \/ (n # << >> /\ MatchTerms(ts, Tail(n)))
             ELSE /\ n # << >>
                  /\ CASE h.t = "any" -> TRUE
                       [] h.t = "lit" -> Head(n) = h.c
                       [] h.t = "class" -> InRanges(Head(n), h.ranges) # h.neg
                  /\ MatchTerms(Tail(ts), Tail(n))

MatchParsed(ts, name) ==
    IF ts.bad THEN [match |-> FALSE, err |-> "ErrBadPattern"]
    ELSE [match |-> MatchTerms(ts.terms, name), err |-> Nil]

Match(pattern, name) == MatchParsed(ParseTerms(pattern, 1, << >>), name)


(***************************************************************************)
(* The local filesystem: a set of entries [path, isDir]; a path is the     *)
(* root it lies under followed by the names of its components.             *)
(***************************************************************************)
N_export123 == << "e", "x", "p", "o", "r", "t", "1", "2", "3" >>
N_export1plus == << "e", "x", "p", "o", "r", "t", "1", "+" >>
N_export9plus == << "e", "x", "p", "o", "r", "t", "9", "+" >>
N_keep == << "k", "e", "e", "p" >>

\* flag dgraph.export-tmp-prefix (part_001:28) and a directory beside it
Roots == {"/tmp", "/var"}

Dir(path) == [path |-> path, isDir |-> TRUE]
File(path) == [path |-> path, isDir |-> FALSE]

FsUniverse ==
    { Dir(<<"/tmp", N_export123>>), Dir(<<"/tmp", N_export1plus>>),
      Dir(<<"/tmp", N_keep>>), File(<<"/tmp", N_export9plus>>),
      Dir(<<"/tmp", N_export1plus, N_keep>>), Dir(<<"/var", N_export1plus>>) }

IsPrefix(p, q) == Len(p) <= Len(q) /\ SubSeq(q, 1, Len(p)) = p

\* every entry below a root lies in a directory that exists
WellFormedFs(fs) ==
    \A e \in fs :
        Len(e.path) > 2 =>
            Dir(SubSeq(e.path, 1, Len(e.path) - 1)) \in fs

EntryName(e) == e.path[Len(e.path)]

RECURSIVE SortByName(_)
SortByName(S) ==
    IF S = {} THEN << >>
    ELSE LET m == CHOOSE x \in S :
                      \A y \in S \ {x} : NameLess(EntryName(x), EntryName(y))
         IN  <<m>> \o SortByName(S \ {m})

\* os.ReadDir(prefix): the immediate children of prefix, sorted by filename
ReadDir(fs, prefix) ==
    SortByName({e \in fs : Len(e.path) = 2 /\ e.path[1] = prefix})

\* filepath.Join(prefix, entry.Name())
Join(prefix, name) == <<prefix, name>>

\* os.RemoveAll(path): path and everything below it
RemoveAll(fs, path) == {e \in fs : ~IsPrefix(path, e.path)}

(***************************************************************************)
(* cleanupTmpFiles (part_001:201-222).  io is what the operating system    *)
(* answers: whether listing the root fails, and the paths whose removal    *)
(* fails.  The result is the filesystem left, the error returned and the   *)
(* paths whose removal was tried ("removing directory" is logged for       *)
(* each), in order.                                                        *)
(***************************************************************************)
RECURSIVE SweepEntries(_, _, _, _, _)

\* as SweepEntry, without the entry.IsDir() test
SweepEntrySkipDirTest(fs, entries, prefix, pattern, io, m, path) ==
    IF m.err # Nil THEN [fs |-> fs, err |-> m.err, tried |-> << >>]
    ELSE IF m.match
         THEN IF path \in io.failing
              THEN [fs |-> fs, err |-> "remove failed", tried |-> <<path>>]
              ELSE [SweepEntries(RemoveAll(fs, path), Tail(entries), prefix, pattern, io)
                       EXCEPT !.tried = <<path>> \o @]
         ELSE SweepEntries(fs, Tail(entries), prefix, pattern, io)

\* as SweepEntry, the loop going on after a removal that failed
SweepEntryContinuesAfterFailure(fs, entries, prefix, pattern, io, m, path) ==
    IF m.err # Nil THEN [fs |-> fs, err |-> m.err, tried |-> << >>]
    ELSE IF Head(entries).isDir /\ m.match
         THEN IF path \in io.failing
              THEN [SweepEntries(fs, Tail(entries), prefix, pattern, io)
                       EXCEPT !.err = "remove failed", !.tried = <<path>> \o @]
              ELSE [SweepEntries(RemoveAll(fs, path), Tail(entries), prefix, pattern, io)
                       EXCEPT !.tried = <<path>> \o @]
         ELSE SweepEntries(fs, Tail(entries), prefix, pattern, io)

\* one round of the loop, on the first of entries: m is what filepath.Match
\* returned for its name, path its joined path (part_001:208-218)
SweepEntry(fs, entries, prefix, pattern, io, m, path) ==
    IF m.err # Nil THEN [fs |-> fs, err |-> m.err, tried |-> << >>]
    ELSE IF Head(entries).isDir /\ m.match
         THEN IF path \in io.failing
              THEN [fs |-> fs, err |-> "remove failed", tried |-> <<path>>]
              ELSE [SweepEntries(RemoveAll(fs, path), Tail(entries), prefix, pattern, io)
                       EXCEPT !.tried = <<path>> \o @]
         ELSE SweepEntries(fs, Tail(entries), prefix, pattern, io)

\* the loop over the entries (part_001:207-221)
SweepEntries(fs, entries, prefix, pattern, io) ==
    IF entries = << >> THEN [fs |-> fs, err |-> Nil, tried |-> << >>]
    ELSE SweepEntry(fs, entries, prefix, pattern, io,
                    Match(pattern, EntryName(Head(entries))),
                    Join(prefix, EntryName(Head(entries))))

\* as cleanupTmpFiles, the entries swept although the listing failed
cleanupTmpFilesSweepsOnListError(fs, prefix, pattern, io) ==
    IF io.readErr
    THEN [SweepEntries(fs, ReadDir(fs, prefix), prefix, pattern, io)
             EXCEPT !.err = "readdir failed"]
    ELSE SweepEntries(fs, ReadDir(fs, prefix), prefix, pattern, io)

\* the whole function: the listing, its error returned at once, and the
\* loop (part_001:201-222)
cleanupTmpFiles(fs, prefix, pattern, io) ==
    IF io.readErr THEN [fs |-> fs, err |-> "readdir failed", tried |-> << >>]
    ELSE SweepEntries(fs, ReadDir(fs, prefix), prefix, pattern, io)

\* what the operating system may answer to one sweep of fs under prefix:
\* the listing fails, or the removal of at most maxFailing directories does
IoOutcomes(fs, prefix, maxFailing) ==
    {[readErr |-> TRUE, failing |-> {}]} \cup
    {[readErr |-> FALSE, failing |-> F] :
        F \in {G \in SUBSET {e.path : e \in {x \in fs : Len(x.path) = 2
                                                  /\ x.path[1] = prefix /\ x.isDir}} :
                  Cardinality(G) <= maxFailing}}

(***************************************************************************)
(* package export (export.go).                                             *)
(***************************************************************************)
\* flag dgraph.endpoint-url (part_001:25): the default, and one url.Parse rejects
Endpoints == {"http://localhost:8080/admin", "http://[::1"}

\* url.Parse(endpoint) (export.go:12)
UrlParseErr(endpoint) ==
    IF endpoint = "http://[::1" THEN "parse: missing ']' in host" ELSE Nil

\* NewClient (export.go:11-30)
NewClient(endpoint) == [err |-> UrlParseErr(endpoint)]

\* ExportOutput (export.go:90-97); NoOutput is the nil *ExportOutput
NoOutput == [Response |-> [Message |-> Nil, Code |-> Nil], ExportedFiles |-> << >>]
NoError == [kind |-> Nil, code |-> Nil, message |-> Nil]

\* what c.cli.Mutate may come back with (export.go:77): a transport error, or
\* the remote's answer
Replies ==
    { [err |-> "connection refused", Message |-> Nil, Code |-> Nil,
       ExportedFiles |-> << >>],
      [err |-> Nil, Message |-> "export already in progress", Code |-> "Error",
       ExportedFiles |-> << >>],
      [err |-> Nil, Message |-> "Export completed.", Code |-> "Success",
       ExportedFiles |-> <<"f1.rdf", "f2.rdf">>] }

\* as Export, the remote's code compared without regard to case
ExportAnyCase(reply) ==
    IF reply.err # Nil
    THEN [out |-> NoOutput,
          err |-> [kind |-> reply.err, code |-> Nil, message |-> Nil]]
    ELSE IF reply.Code \notin {"Success", "success"}
    THEN [out |-> NoOutput,
          err |-> [kind |-> "export finished with unseccessfull code",
                   code |-> reply.Code, message |-> reply.Message]]
    ELSE [out |-> [Response |-> [Message |-> reply.Message, Code |-> reply.Code],
                   ExportedFiles |-> reply.ExportedFiles],
          err |-> NoError]

\* Client.Export once Mutate has returned (export.go:77-86)
Export(reply) ==
    IF reply.err # Nil
    THEN [out |-> NoOutput,
          err |-> [kind |-> reply.err, code |-> Nil, message |-> Nil]]
    ELSE IF reply.Code # "Success"
    THEN [out |-> NoOutput,
          err |-> [kind |-> "export finished with unseccessfull code",
                   code |-> reply.Code, message |-> reply.Message]]
    ELSE [out |-> [Response |-> [Message |-> reply.Message, Code |-> reply.Code],
                   ExportedFiles |-> reply.ExportedFiles],
          err |-> NoError]

\* ExportOutput.GetFiles (export.go:99-106)
GetFiles(out) == [i \in DOMAIN out.ExportedFiles |-> out.ExportedFiles[i]]

(***************************************************************************)
(* State.                                                                  *)
(***************************************************************************)
VARIABLES
    params,           \* dgraphParams (part_001:40-51), the same on every replica
    holder,           \* the replica holding the valid lease, or 0
    main,             \* where each replica's main goroutine is
    ctxDone,          \* main's ctx is cancelled (part_001:53)
    leaderCancelled,  \* the elector cancelled the context it gave OnStartedLeading
    lostInFlight,     \* the loop's Export call was in flight when it did, and still is
    server,           \* apiHandler's http server
    loop,             \* where each replica's exportLoop goroutine is
    tick,             \* ticks waiting in ticker.C (a channel of capacity 1)
    started,          \* Export calls the export loop has started
    reqs,             \* the HTTP requests of each replica
    fs,               \* each replica's local filesystem
    event             \* what the last step called, wrote, logged and swept

vars == << params, holder, main, ctxDone, leaderCancelled, lostInFlight, server, loop, tick,
           started, reqs, fs, event >>

NoResult == [out |-> NoOutput, err |-> NoError]
NoBody == [kind |-> Nil, err |-> NoError, out |-> NoOutput]
NoRequest == [state |-> "unsent", method |-> Nil]
NoSweep == [ran |-> FALSE, before |-> {}, err |-> Nil, tried |-> << >>]
\* no answer of c.cli.Mutate
NoReply == [err |-> Nil, Message |-> Nil, Code |-> Nil, ExportedFiles |-> << >>]

\* a step with no call, no response, no log line and no sweep
NoEvent ==
    [replica |-> 0, by |-> Nil, req |-> 0, called |-> FALSE, returned |-> FALSE,
     reply |-> NoReply, result |-> NoResult, body |-> NoBody, lines |-> << >>, sweep |-> NoSweep]

\* flag dgraph.export-tmp-pattern's default (part_001:29)
DefaultPattern ==
    << "e", "x", "p", "o", "r", "t", "[", "0", "-", "9", "]", "+" >>

\* flag dgraph.export-period's default, in seconds (part_001:27)
DefaultPeriod == 3600

\* the temporary directory as the replicas find it: a directory the default
\* pattern matches and one it does not
TmpContent ==
    { Dir(<<"/tmp", N_export123>>), Dir(<<"/tmp", N_export1plus>>) }

InitProcess(launched) ==
    /\ holder = 0
    /\ main = [r \in Replicas |-> IF r \in launched THEN "startup" ELSE "absent"]
    /\ ctxDone = [r \in Replicas |-> FALSE]
    /\ leaderCancelled = [r \in Replicas |-> FALSE]
    /\ lostInFlight = [r \in Replicas |-> FALSE]
    /\ server = [r \in Replicas |-> "off"]
    /\ loop = [r \in Replicas |-> "none"]
    /\ tick = [r \in Replicas |-> 0]
    /\ started = [r \in Replicas |-> 0]
    /\ reqs = [r \in Replicas |-> [q \in ReqIds |-> NoRequest]]
    /\ event = NoEvent

\* one replica, with every flag the claims turn on drawn from its values
Init ==
    /\ InitProcess({1})
    /\ params \in [endpoint : Endpoints,
                   period : {DefaultPeriod},
                   dgraphTmp : [prefix : {"/tmp"},
                                pattern : {DefaultPattern},
                                cleanup : BOOLEAN]]
    /\ fs = [r \in Replicas |-> TmpContent]

Upd(f, r, v) == [f EXCEPT ![r] = v]

\* the context exportLoop selects on: the elector's child of main's ctx
LeaderCtxDone(r) == ctxDone[r] \/ leaderCancelled[r]

Running(r) == main[r] \in {"acquire", "renew", "stopping"}

\* the Export calls in flight on replica r
InFlight(r) ==
    (IF loop[r] = "export" THEN {0} ELSE {})
        \cup {q \in ReqIds : reqs[r][q].state = "export"}

\* the process ends: every goroutine ends with it, whatever it was doing
ProcessEnds(r, how) ==
    /\ main' = Upd(main, r, how)
    /\ server' = Upd(server, r, IF server[r] = "off" THEN "off" ELSE "stopped")
    /\ loop' = Upd(loop, r, IF loop[r] = "none" THEN "none" ELSE "dead")
    /\ reqs' = Upd(reqs, r, [q \in ReqIds |->
                    IF reqs[r][q].state = "export"
                    THEN [reqs[r][q] EXCEPT !.state = "killed"]
                    ELSE reqs[r][q]])

(***************************************************************************)
(* main (part_001:22-100) and the leader elector it runs.                  *)
(***************************************************************************)
\* main up to le.Run (part_001:53-99): a failure to open the database, to
\* build the elector or to create the lease table is fatal; otherwise the
\* http server is started and the elector starts trying to acquire.
Startup(r) ==
    /\ main[r] = "startup"
    /\ \/ /\ main' = Upd(main, r, "fatal")
          /\ UNCHANGED server
       \/ /\ main' = Upd(main, r, "acquire")
          /\ server' = Upd(server, r, "listening")
    /\ event' = NoEvent
    /\ UNCHANGED << params, holder, ctxDone, leaderCancelled, lostInFlight, loop, tick, started,
                    reqs, fs >>

\* le.Run acquires the lease and starts OnStartedLeading in a goroutine
\* (part_001:76-78, 99)
Acquire(r) ==
    /\ main[r] = "acquire"
    /\ ~ctxDone[r]
    /\ holder = 0
    /\ holder' = r
    /\ main' = Upd(main, r, "renew")
    /\ loop' = Upd(loop, r, "start")
    /\ event' = NoEvent
    /\ UNCHANGED << params, ctxDone, leaderCancelled, lostInFlight, server, tick, started, reqs, fs >>

\* le.Run gives up acquiring once ctx is cancelled
AcquireCancelled(r) ==
    /\ main[r] = "acquire"
    /\ ctxDone[r]
    /\ main' = Upd(main, r, "stopping")
    /\ event' = NoEvent
    /\ UNCHANGED << params, holder, ctxDone, leaderCancelled, lostInFlight, server, loop, tick,
                    started, reqs, fs >>

\* as StopLeading, the elector going back to acquiring the lease
StopLeadingReacquires(r) ==
    /\ main[r] = "renew"
    /\ main' = Upd(main, r, "acquire")
    /\ holder' = 0
    /\ leaderCancelled' = Upd(leaderCancelled, r, TRUE)
    /\ lostInFlight' = Upd(lostInFlight, r, loop[r] = "export")
    /\ event' = NoEvent
    /\ UNCHANGED << params, ctxDone, server, loop, tick, started, reqs, fs >>

\* the elector stops renewing (the renew deadline passed, or ctx was
\* cancelled) and cancels the context of OnStartedLeading
StopLeading(r) ==
    /\ main[r] = "renew"
    /\ main' = Upd(main, r, "stopping")
    /\ leaderCancelled' = Upd(leaderCancelled, r, TRUE)
    /\ lostInFlight' = Upd(lostInFlight, r, loop[r] = "export")
    /\ event' = NoEvent
    /\ UNCHANGED << params, holder, ctxDone, server, loop, tick, started, reqs, fs >>

\* the lease of a replica that no longer renews it runs out
LeaseExpire(r) ==
    /\ holder = r
    /\ main[r] \in {"stopping", "exited", "fatal", "panic"}
    /\ holder' = 0
    /\ event' = NoEvent
    /\ UNCHANGED << params, main, ctxDone, leaderCancelled, lostInFlight, server, loop, tick,
                    started, reqs, fs >>

\* OnStoppedLeading, le.Run returns, main's deferred calls run and main
\* returns (part_001:54, 62, 79-81, 99-100)
MainReturn(r) ==
    /\ main[r] = "stopping"
    /\ ProcessEnds(r, "exited")
    /\ ctxDone' = Upd(ctxDone, r, TRUE)
    /\ event' = NoEvent
    /\ UNCHANGED << params, holder, leaderCancelled, lostInFlight, tick, started, fs >>

\* as ServerStop, without the call of cancel()
ServerStopNoCancel(r) ==
    /\ Running(r)
    /\ server[r] = "listening"
    /\ server' = Upd(server, r, "stopped")
    /\ event' = NoEvent
    /\ UNCHANGED << params, holder, main, ctxDone, leaderCancelled, lostInFlight,
                    loop, tick, started, reqs, fs >>

\* apiHandler: ListenAndServe returns, and cancel() is called (part_001:155-161)
ServerStop(r) ==
    /\ Running(r)
    /\ server[r] = "listening"
    /\ server' = Upd(server, r, "stopped")
    /\ ctxDone' = Upd(ctxDone, r, TRUE)
    /\ event' = NoEvent
    /\ UNCHANGED << params, holder, main, leaderCancelled, lostInFlight, loop, tick, started,
                    reqs, fs >>

(***************************************************************************)
(* Cleanup as the loop and the handler run it (part_001:141-145, 193-197): *)
(* a sweep when the flag is set, its error logged and nothing else.  ev is *)
(* what the step did before it.                                            *)
(***************************************************************************)
LogLine(level, what, err, files, cleanupErr) ==
    [level |-> level, what |-> what, err |-> err, files |-> files,
     cleanupErr |-> cleanupErr]

\* as SweepWith, a failed sweep reported in place of the call's outcome
SweepWithMasking(r, ev, maxFailing) ==
    \E io \in IoOutcomes(fs[r], params.dgraphTmp.prefix, maxFailing) :
        \E sw \in {cleanupTmpFiles(fs[r], params.dgraphTmp.prefix,
                                   params.dgraphTmp.pattern, io)} :
            /\ fs' = Upd(fs, r, sw.fs)
            /\ event' = [ev EXCEPT
                   !.sweep = [ran |-> TRUE, before |-> fs[r], err |-> sw.err,
                              tried |-> sw.tried],
                   !.body = IF sw.err # Nil /\ ev.by = "handler"
                            THEN [kind |-> "text",
                                  err |-> [kind |-> sw.err, code |-> Nil,
                                           message |-> Nil],
                                  out |-> NoOutput]
                            ELSE @,
                   !.lines = IF sw.err # Nil
                             THEN <<LogLine("Error", "cleanup", NoError, << >>, sw.err)>>
                             ELSE @]

\* one sweep of replica r's filesystem, whatever the operating system answers
SweepWith(r, ev, maxFailing) ==
    \E io \in IoOutcomes(fs[r], params.dgraphTmp.prefix, maxFailing) :
        \E sw \in {cleanupTmpFiles(fs[r], params.dgraphTmp.prefix,
                                   params.dgraphTmp.pattern, io)} :
            /\ fs' = Upd(fs, r, sw.fs)
            /\ event' = [ev EXCEPT
                   !.sweep = [ran |-> TRUE, before |-> fs[r], err |-> sw.err,
                              tried |-> sw.tried],
                   !.lines = @ \o
                       (IF sw.err # Nil
                        THEN <<LogLine("Error", "cleanup", NoError, << >>, sw.err)>>
                        ELSE << >>)]

\* as CleanupStep, the sweep run whatever the flag
CleanupStepWhateverFlag(r, ev) == SweepWith(r, ev, MaxFailing)

\* the cleanup block: if p.dgraphTmp.cleanup, the sweep, its error logged
\* (part_001:141-145, 193-197)
CleanupStep(r, ev) ==
    IF params.dgraphTmp.cleanup
    THEN SweepWith(r, ev, MaxFailing)
    ELSE /\ event' = ev
         /\ UNCHANGED fs

(***************************************************************************)
(* exportLoop (part_001:117-150).                                          *)
(***************************************************************************)
\* time.NewTicker(d) panics when d is not positive (part_001:128)
NewTickerPanics(d) == d <= 0

\* as ExportLoopStart, the loop entered with a tick ready at once
ExportLoopStartImmediate(r) ==
    /\ loop[r] = "start"
    /\ IF NewClient(params.endpoint).err # Nil
       THEN /\ ProcessEnds(r, "fatal")
            /\ UNCHANGED tick
       ELSE /\ loop' = Upd(loop, r, "select")
            /\ tick' = Upd(tick, r, 1)
            /\ UNCHANGED << main, server, reqs >>
    /\ event' = NoEvent
    /\ UNCHANGED << params, holder, ctxDone, leaderCancelled, lostInFlight,
                    started, fs >>

\* NewClient, klog.Fatal when it fails, else the ticker is created, which
\* panics on a period that is not positive (part_001:118-128)
ExportLoopStart(r) ==
    /\ loop[r] = "start"
    /\ IF NewClient(params.endpoint).err # Nil
       THEN /\ ProcessEnds(r, "fatal")
            /\ UNCHANGED tick
       ELSE IF NewTickerPanics(params.period)
       THEN /\ ProcessEnds(r, "panic")
            /\ UNCHANGED tick
       ELSE /\ loop' = Upd(loop, r, "select")
            /\ tick' = Upd(tick, r, 0)
            /\ UNCHANGED << main, server, reqs >>
    /\ event' = NoEvent
    /\ UNCHANGED << params, holder, ctxDone, leaderCancelled, lostInFlight, started, fs >>

\* the ticker fires: the tick waits in ticker.C, or is dropped when one
\* already waits there
Tick(r) ==
    /\ loop[r] \in {"select", "export"}
    /\ tick' = Upd(tick, r, 1)
    /\ event' = NoEvent
    /\ UNCHANGED << params, holder, main, ctxDone, leaderCancelled, lostInFlight, server, loop,
                    started, reqs, fs >>

\* as LoopTakeTick, the tick received and no Export call made
LoopTakeTickSkipped(r) ==
    /\ loop[r] = "select"
    /\ tick[r] = 1
    /\ started[r] < MaxTimerRuns
    /\ tick' = Upd(tick, r, 0)
    /\ event' = [NoEvent EXCEPT !.replica = r, !.by = "timer"]
    /\ UNCHANGED << params, holder, main, ctxDone, leaderCancelled, lostInFlight, server, loop,
                    started, reqs, fs >>

\* select takes the case <-ticker.C, and c.Export is called (part_001:129-133).
\* When ctx.Done() is ready too, select takes either case.
LoopTakeTick(r) ==
    /\ loop[r] = "select"
    /\ tick[r] = 1
    /\ started[r] < MaxTimerRuns
    /\ tick' = Upd(tick, r, 0)
    /\ loop' = Upd(loop, r, "export")
    /\ started' = Upd(started, r, started[r] + 1)
    /\ event' = [NoEvent EXCEPT !.replica = r, !.by = "timer", !.called = TRUE]
    /\ UNCHANGED << params, holder, main, ctxDone, leaderCancelled, lostInFlight, server, reqs, fs >>

\* select takes the case <-ctx.Done(), and the loop returns (part_001:146-147)
LoopCtxDone(r) ==
    /\ loop[r] = "select"
    /\ LeaderCtxDone(r)
    /\ loop' = Upd(loop, r, "returned")
    /\ event' = NoEvent
    /\ UNCHANGED << params, holder, main, ctxDone, leaderCancelled, lostInFlight, server, tick,
                    started, reqs, fs >>

\* as TimerOutcomeLines, a failed call leaving no line
TimerOutcomeLinesSilent(res) ==
    IF res.err # NoError
    THEN << >>
    ELSE <<LogLine("Info", "exported files", NoError, GetFiles(res.out), Nil)>>

\* what the loop logs of a finished Export call (part_001:134-139)
TimerOutcomeLines(res) ==
    IF res.err # NoError
    THEN <<LogLine("Error", "export error", res.err, << >>, Nil)>>
    ELSE <<LogLine("Info", "exported files", NoError, GetFiles(res.out), Nil)>>

\* as LoopAfterCall, a call that failed made again at once
LoopAfterCallRetries(res) ==
    IF res.err # NoError THEN "export" ELSE "select"

\* as LoopAfterCall, the loop returning after a call that failed
LoopAfterCallStopsOnError(res) ==
    IF res.err # NoError THEN "returned" ELSE "select"

\* where the loop goes once the call is dealt with: `continue' after an
\* error, the end of the case otherwise, both back to the select
\* (part_001:128-129, 136, 145)
LoopAfterCall(res) == "select"

\* c.Export returns to the loop: the outcome is logged, and on success the
\* cleanup runs (part_001:133-145)
TimerExportReturn(r) ==
    /\ loop[r] = "export"
    /\ \E reply \in Replies :
          LET res == Export(reply)
              ev == [NoEvent EXCEPT !.replica = r, !.by = "timer", !.returned = TRUE,
                                    !.reply = reply, !.result = res, !.lines = TimerOutcomeLines(res)]
          IN  /\ IF res.err # NoError
                 THEN /\ event' = ev
                      /\ UNCHANGED fs
                 ELSE CleanupStep(r, ev)
              /\ loop' = Upd(loop, r, LoopAfterCall(res))
    /\ lostInFlight' = Upd(lostInFlight, r, FALSE)
    /\ UNCHANGED << params, holder, main, ctxDone, leaderCancelled, server, tick,
                    started, reqs >>

(***************************************************************************)
(* apiExportHandler (part_001:164-199).                                    *)
(***************************************************************************)
Methods == {"POST", "GET"}

TextBody(err) == [kind |-> "text", err |-> err, out |-> NoOutput]
\* json.Marshal(resp) written as one line (part_001:182-188)
JsonBody(out) == [kind |-> "json", err |-> NoError, out |-> out]
\* http.Error(w, "Method not allowed", 405) (part_001:190)
NotAllowedBody ==
    [kind |-> "status 405",
     err |-> [kind |-> "Method not allowed", code |-> Nil, message |-> Nil],
     out |-> NoOutput]

\* as HandlerRoute, a POST refused on a replica that does not lead
HandlerRouteLeaderOnly(r, method) ==
    IF method # "POST" \/ main[r] # "renew" THEN "not allowed"
    ELSE IF NewClient(params.endpoint).err # Nil THEN "client error"
    ELSE "export"

\* the handler's switch and its NewClient (part_001:166-175, 189-190)
HandlerRoute(r, method) ==
    IF method # "POST" THEN "not allowed"
    ELSE IF NewClient(params.endpoint).err # Nil THEN "client error"
    ELSE "export"

\* a request reaches the handler, which answers it at once or calls c.Export
\* (part_001:165-176, 189-197)
HandleRequest(r, q) ==
    /\ Running(r)
    /\ server[r] = "listening"
    /\ reqs[r][q].state = "unsent"
    /\ \A k \in ReqIds : k < q => reqs[r][k].state # "unsent"
    /\ \E method \in Methods :
          LET route == HandlerRoute(r, method)
              ev == [NoEvent EXCEPT !.replica = r, !.by = "handler", !.req = q]
          IN  IF route = "export"
              THEN /\ reqs' = Upd(reqs, r, [reqs[r] EXCEPT ![q] =
                               [state |-> "export", method |-> method]])
                   /\ event' = [ev EXCEPT !.called = TRUE]
                   /\ UNCHANGED fs
              ELSE IF route = "client error"
              THEN /\ reqs' = Upd(reqs, r, [reqs[r] EXCEPT ![q] =
                               [state |-> "done", method |-> method]])
                   /\ event' = [ev EXCEPT !.body = TextBody(
                                    [kind |-> NewClient(params.endpoint).err,
                                     code |-> Nil, message |-> Nil])]
                   /\ UNCHANGED fs
              ELSE /\ reqs' = Upd(reqs, r, [reqs[r] EXCEPT ![q] =
                               [state |-> "done", method |-> method]])
                   /\ CleanupStep(r, [ev EXCEPT !.body = NotAllowedBody])
    /\ UNCHANGED << params, holder, main, ctxDone, leaderCancelled, lostInFlight, server, loop,
                    tick, started >>

\* as ResponseBody, a failed call answered with a text of the handler's own
ResponseBodyOwnText(res) ==
    IF res.err # NoError
    THEN TextBody([kind |-> "export failed", code |-> Nil, message |-> Nil])
    ELSE JsonBody(res.out)

\* what the handler writes of a finished Export call (part_001:177-188)
ResponseBody(res) ==
    IF res.err # NoError THEN TextBody(res.err) ELSE JsonBody(res.out)

\* c.Export returns to the handler: the outcome is written to the response,
\* and on success the cleanup runs (part_001:176-197)
RequestExportReturn(r, q) ==
    /\ reqs[r][q].state = "export"
    /\ \E reply \in Replies :
          LET res == Export(reply)
              ev == [NoEvent EXCEPT !.replica = r, !.by = "handler", !.req = q,
                                    !.returned = TRUE, !.reply = reply,
                                    !.result = res, !.body = ResponseBody(res)]
          IN  IF res.err # NoError
              THEN /\ event' = ev
                   /\ UNCHANGED fs
              ELSE CleanupStep(r, ev)
    /\ reqs' = Upd(reqs, r, [reqs[r] EXCEPT ![q] = [@ EXCEPT !.state = "done"]])
    /\ UNCHANGED << params, holder, main, ctxDone, leaderCancelled, lostInFlight, server, loop,
                    tick, started >>

(***************************************************************************)
(* The handler of /health (part_001:153).                                  *)
(***************************************************************************)
\* an empty handler function: net/http answers 200 with an empty body
EmptyOkBody == [kind |-> "status 200, empty", err |-> NoError, out |-> NoOutput]

\* as HealthResponse, a replica that does not lead answering 503
HealthResponseLeaderOnly(r, method) ==
    IF main[r] = "renew" THEN EmptyOkBody
    ELSE [kind |-> "status 503", err |-> NoError, out |-> NoOutput]

\* func(w http.ResponseWriter, r *http.Request) {}, whatever the method
HealthResponse(r, method) == EmptyOkBody

\* a request for /health reaches its handler
HandleHealth(r) ==
    /\ Running(r)
    /\ server[r] = "listening"
    /\ \E method \in Methods :
          event' = [NoEvent EXCEPT !.replica = r, !.by = "health",
                                   !.body = HealthResponse(r, method)]
    /\ UNCHANGED << params, holder, main, ctxDone, leaderCancelled, lostInFlight,
                    server, loop, tick, started, reqs, fs >>

(***************************************************************************)
(* The specification of one replica.                                       *)
(***************************************************************************)
Next ==
    \E r \in Replicas :
        \/ Startup(r)
        \/ Acquire(r)
        \/ AcquireCancelled(r)
        \/ StopLeading(r)
        \/ LeaseExpire(r)
        \/ MainReturn(r)
        \/ ServerStop(r)
        \/ ExportLoopStart(r)
        \/ Tick(r)
        \/ LoopTakeTick(r)
        \/ LoopCtxDone(r)
        \/ TimerExportReturn(r)
        \/ \E q \in ReqIds : HandleRequest(r, q) \/ RequestExportReturn(r, q)
        \/ HandleHealth(r)

Spec == Init /\ [][Next]_vars

(***************************************************************************)
(* The fleet: every replica runs, with the default flags; the replicas     *)
(* compete for the lease and no HTTP request is sent to them.              *)
(***************************************************************************)
InitFleet ==
    /\ InitProcess(Replicas)
    /\ params = [endpoint |-> "http://localhost:8080/admin",
                 period |-> DefaultPeriod,
                 dgraphTmp |-> [prefix |-> "/tmp", pattern |-> DefaultPattern,
                                cleanup |-> FALSE]]
    /\ fs = [r \in Replicas |-> TmpContent]

NextFleet ==
    \E r \in Replicas :
        \/ Startup(r)
        \/ Acquire(r)
        \/ AcquireCancelled(r)
        \/ StopLeading(r)
        \/ LeaseExpire(r)
        \/ MainReturn(r)
        \/ ServerStop(r)
        \/ ExportLoopStart(r)
        \/ Tick(r)
        \/ LoopTakeTick(r)
        \/ LoopCtxDone(r)
        \/ TimerExportReturn(r)

SpecFleet == InitFleet /\ [][NextFleet]_vars

(***************************************************************************)
(* One replica given any value of flag dgraph.export-period, which         *)
(* flag.Duration takes as it parses: negative, zero or positive.           *)
(***************************************************************************)
Periods == {-1, 0, DefaultPeriod}

InitConfig ==
    /\ InitProcess({1})
    /\ params \in [endpoint : {"http://localhost:8080/admin"},
                   period : Periods,
                   dgraphTmp : [prefix : {"/tmp"}, pattern : {DefaultPattern},
                                cleanup : {FALSE}]]
    /\ fs = [r \in Replicas |-> TmpContent]

SpecConfig == InitConfig /\ [][Next]_vars

(***************************************************************************)
(* Client.Export alone, on every answer c.cli.Mutate may come back with:   *)
(* a transport error or none, with whatever the mutation holds by then.    *)
(***************************************************************************)
MutateAnswers ==
    [err : {Nil, "connection refused", "context deadline exceeded"},
     Message : {Nil, "Export completed.", "export already in progress"},
     Code : {Nil, "Success", "success", "Error"},
     ExportedFiles : {<< >>, <<"f1.rdf">>, <<"f1.rdf", "f2.rdf">>}]

InitExport ==
    /\ InitProcess({})
    /\ params = [endpoint |-> "http://localhost:8080/admin",
                 period |-> DefaultPeriod,
                 dgraphTmp |-> [prefix |-> "/tmp", pattern |-> DefaultPattern,
                                cleanup |-> FALSE]]
    /\ fs = [r \in Replicas |-> TmpContent]

\* c.Export(ctx) called, c.cli.Mutate answering with reply
CallExport ==
    /\ \E reply \in MutateAnswers :
          event' = [NoEvent EXCEPT !.replica = 1, !.called = TRUE, !.returned = TRUE,
                                   !.reply = reply, !.result = Export(reply)]
    /\ UNCHANGED << params, holder, main, ctxDone, leaderCancelled, lostInFlight,
                    server, loop, tick, started, reqs, fs >>

SpecExport == InitExport /\ [][CallExport]_vars

(***************************************************************************)
(* cleanupTmpFiles alone, on every filesystem, root and pattern of the     *)
(* bounded sets below.                                                     *)
(***************************************************************************)
P_exportStar == << "e", "x", "p", "o", "r", "t", "*" >>
P_exportDigitStar == << "e", "x", "p", "o", "r", "t", "[", "0", "-", "9", "]", "*" >>
P_exportNotDigits == << "e", "x", "p", "o", "r", "t", "[", "^", "2", "-", "9", "]", "+" >>
P_exportEscaped == << "e", "x", "p", "o", "r", "t", "1", "\\", "+" >>
P_keep == << "k", "e", "e", "p" >>
P_star == << "*" >>
P_anyEep == << "?", "e", "e", "p" >>
P_unclosed == << "e", "x", "p", "o", "r", "t", "[" >>

Patterns ==
    { DefaultPattern, P_exportStar, P_exportDigitStar, P_exportNotDigits,
      P_exportEscaped, P_keep, P_star, P_anyEep, P_unclosed }

InitCleanup ==
    /\ InitProcess({})
    /\ params \in [endpoint : {"http://localhost:8080/admin"},
                   period : {DefaultPeriod},
                   dgraphTmp : [prefix : Roots, pattern : Patterns, cleanup : {TRUE}]]
    /\ \E content \in {c \in SUBSET FsUniverse : WellFormedFs(c)} :
          fs = [r \in Replicas |-> content]

\* cleanupTmpFiles(ctx, prefix, pattern) called on replica 1's filesystem
Sweep ==
    /\ SweepWith(1, [NoEvent EXCEPT !.replica = 1], Cardinality(fs[1]))
    /\ UNCHANGED << params, holder, main, ctxDone, leaderCancelled, lostInFlight, server, loop,
                    tick, started, reqs >>

SpecCleanup == InitCleanup /\ [][Sweep]_vars

(***************************************************************************)
(* One replica under the scheduling the Go runtime guarantees: a goroutine *)
(* that can take a step takes it, and the ticker keeps firing.  Nothing    *)
(* makes the lease, the network or the remote Dgraph answer.               *)
(***************************************************************************)
Fairness ==
    /\ WF_vars(\E r \in Replicas : Startup(r))
    /\ WF_vars(\E r \in Replicas : AcquireCancelled(r))
    /\ WF_vars(\E r \in Replicas : ctxDone[r] /\ StopLeading(r))
    /\ WF_vars(\E r \in Replicas : MainReturn(r))
    /\ WF_vars(\E r \in Replicas : ExportLoopStart(r))
    /\ WF_vars(\E r \in Replicas : Tick(r))
    /\ WF_vars(\E r \in Replicas : LoopTakeTick(r) \/ LoopCtxDone(r))

FairSpec == Spec /\ Fairness

\* the same scheduling, for the replica given any period
FairSpecConfig == SpecConfig /\ Fairness

(***************************************************************************)
(* Properties.                                                             *)
(***************************************************************************)
\* the elector of replica r is leading: it acquired and has not stopped
IsLeader(r) == main[r] = "renew"

\* C1: within one process at most one Export call is in flight at any
\* instant, whatever the interleaving of ticks and on-demand requests.
C1_MutualExclusion ==
    \A r \in Replicas : Cardinality(InFlight(r)) <= 1

\* C2: an on-demand request that arrives while an Export call is in flight
\* is answered at once and starts no Export call of its own: whenever the
\* handler has just called Export, that call is the only one in flight.
C2_BusyRejection ==
    (event.by = "handler" /\ event.called)
        => InFlight(event.replica) = {event.req}

\* C3: the export loop calls Export only while its replica is the leader:
\* not before leadership is gained and not once it is lost, also when a tick
\* and the cancelled leader context are ready together.
C3_LeadershipGating ==
    (event.by = "timer" /\ event.called)
        => (IsLeader(event.replica) /\ ~LeaderCtxDone(event.replica))

\* C4: while the replica leads and no Export call is in flight, every tick
\* the loop receives starts exactly one Export call; and the loop starts
\* Export calls in no other way.
C4_TickStartsOneExport ==
    [][\A r \in Replicas :
          /\ (tick[r] = 1 /\ tick'[r] = 0 /\ IsLeader(r) /\ InFlight(r) = {})
                => /\ started'[r] = started[r] + 1
                   /\ InFlight(r)' = {0}
                   /\ event'.called /\ event'.by = "timer" /\ event'.replica = r
          /\ started'[r] # started[r]
                => (tick[r] = 1 /\ tick'[r] = 0 /\ started'[r] = started[r] + 1)]_vars

\* the leader has honoured two ticks in a row, the second Export call is in
\* flight and no request is
C4_Witness ==
    /\ IsLeader(1) /\ ~LeaderCtxDone(1)
    /\ started[1] = 2
    /\ InFlight(1) = {0}
    /\ event.called /\ event.by = "timer"

\* C5: a POST to the export endpoint (with an endpoint url.Parse accepts)
\* starts an Export call, and the response carries what that call returned,
\* in whatever state the elector is: no leadership state refuses it.
C5_OnDemandIndependence ==
    /\ (event.by = "handler" /\ ~event.returned
          /\ reqs[event.replica][event.req].method = "POST"
          /\ NewClient(params.endpoint).err = Nil)
        => (event.called /\ reqs[event.replica][event.req].state = "export"
              /\ event.body = NoBody)
    /\ (event.by = "handler" /\ event.returned)
        => IF event.result.err # NoError
           THEN event.body.kind = "text" /\ event.body.err = event.result.err
           ELSE event.body.kind = "json" /\ event.body.out = event.result.out

\* a replica that never led answers a POST with the export output
C5_Witness ==
    /\ main[1] = "acquire"
    /\ event.by = "handler" /\ event.returned /\ event.replica = 1
    /\ reqs[1][event.req].method = "POST"
    /\ event.body.kind = "json"
    /\ event.body.out.ExportedFiles = <<"f1.rdf", "f2.rdf">>

\* C6: with a correct lease, only the replica that holds the lease starts
\* Export calls from its export loop.
C6_SingleRunner ==
    (event.by = "timer" /\ event.called) => holder = event.replica

\* C7: a sweep removes nothing but directories that lie directly under the
\* configured root and whose name matches the pattern (with what is inside
\* them); files, directories that do not match and everything outside the
\* root stay as they were, and nothing is created.
C7_CleanupScoping ==
    event.sweep.ran =>
        LET before == event.sweep.before
            after == fs[event.replica]
            root == params.dgraphTmp.prefix
            Target(e) == /\ e \in before
                         /\ e.isDir
                         /\ e.path[1] = root /\ Len(e.path) = 2
                         /\ Match(params.dgraphTmp.pattern, EntryName(e)).match
        IN  /\ after \subseteq before
            /\ \A e \in before \ after :
                   \E d \in before : Target(d) /\ IsPrefix(d.path, e.path)
            /\ \A e \in before :
                   (Len(e.path) = 2 /\ ~Target(e)) => e \in after
            /\ \A e \in before : e.path[1] # root => e \in after

\* a sweep with pattern export* removed the directory export123 and left the
\* file export9+, the directory keep and a directory export1+ outside the root
C7_Witness ==
    /\ event.sweep.ran /\ event.sweep.err = Nil
    /\ params.dgraphTmp.prefix = "/tmp"
    /\ params.dgraphTmp.pattern = P_exportStar
    /\ { Dir(<<"/tmp", N_export123>>), File(<<"/tmp", N_export9plus>>),
         Dir(<<"/tmp", N_keep>>), Dir(<<"/var", N_export1plus>>) }
           \subseteq event.sweep.before
    /\ Dir(<<"/tmp", N_export123>>) \notin fs[1]
    /\ { File(<<"/tmp", N_export9plus>>), Dir(<<"/tmp", N_keep>>),
         Dir(<<"/var", N_export1plus>>) } \subseteq fs[1]

\* C8: with the default pattern export[0-9]+ a sweep that meets no error
\* removes the directory export123 under the root and leaves the directory
\* keep.
C8_DefaultPatternExample ==
    ( /\ event.sweep.ran /\ event.sweep.err = Nil
      /\ params.dgraphTmp.pattern = DefaultPattern
      /\ params.dgraphTmp.prefix = "/tmp"
      /\ Dir(<<"/tmp", N_export123>>) \in event.sweep.before
      /\ Dir(<<"/tmp", N_keep>>) \in event.sweep.before )
        => /\ Match(DefaultPattern, N_export123).match
           /\ Dir(<<"/tmp", N_export123>>) \notin fs[event.replica]
           /\ Dir(<<"/tmp", N_keep>>) \in fs[event.replica]

\* C9: the outcome of every Export call that returns is emitted where its
\* trigger expects it: one line of the process log for a call of the export
\* loop (an error line with the error, or the list of exported files), the
\* response body for a call of the handler.
C9_NoSilentDrops ==
    event.returned =>
        IF event.by = "timer"
        THEN /\ Len(event.lines) >= 1
             /\ IF event.result.err # NoError
                THEN /\ event.lines[1].level = "Error"
                     /\ event.lines[1].err = event.result.err
                ELSE /\ event.lines[1].what = "exported files"
                     /\ event.lines[1].files = event.result.out.ExportedFiles
             /\ \A i \in 2..Len(event.lines) : event.lines[i].what = "cleanup"
             /\ event.body = NoBody
        ELSE /\ IF event.result.err # NoError
                THEN event.body.kind = "text" /\ event.body.err = event.result.err
                ELSE event.body.kind = "json" /\ event.body.out = event.result.out
             /\ \A i \in DOMAIN event.lines : event.lines[i].what = "cleanup"

\* an Export call of the export loop was rejected by the remote, and the
\* error is in the log
C9_Witness ==
    /\ event.returned /\ event.by = "timer"
    /\ event.result.err.code = "Error"
    /\ Len(event.lines) = 1
    /\ event.lines[1].err.message = "export already in progress"

\* C10: every on-demand request that called Export is eventually answered,
\* also when the remote does not answer or ctx is cancelled.
C10_RequestAnswered ==
    \A r \in Replicas : \A q \in ReqIds :
        (reqs[r][q].state = "export") ~> (reqs[r][q].state = "done")

\* C11: ticks are not queued: a tick that fired while an Export call of the
\* loop was in flight is dropped, so when that call has returned no tick
\* is waiting in ticker.C to start the next call; the next call starts
\* only on a tick that fires after the return.
C11_TicksNotQueued ==
    \A r \in Replicas :
        (event.returned /\ event.by = "timer" /\ event.replica = r)
            => tick[r] = 0

\* C12: when main's ctx is cancelled while an Export call is in flight, on
\* the timer path or the on-demand path, the remote call is aborted: a call
\* that returns once ctx is cancelled returns the cancellation, never an
\* outcome of the remote run to its end.
C12_AbortOnCancel ==
    (event.returned /\ ctxDone[event.replica])
        => event.result.err.kind = "context canceled"

\* C13: an Export call of the loop in flight when leadership is lost runs
\* to completion and has its outcome reported: a call that was in flight
\* when the elector cancelled the leader context stays in flight until it
\* returns with its outcome logged; nothing cuts it off.
C13_InFlightCompletes ==
    [][\A r \in Replicas :
          (lostInFlight[r] /\ loop[r] = "export") =>
              \/ loop'[r] = "export"
              \/ /\ loop'[r] = "select"
                 /\ event'.returned /\ event'.by = "timer" /\ event'.replica = r
                 /\ event'.lines # << >>]_vars

\* C14: a request for /health is answered with success and an empty body
\* in every state of the process, leader or not, with or without an Export
\* call in flight, and it starts no Export call and no cleanup sweep.
C14_HealthAlwaysOk ==
    [][\A r \in Replicas :
          (event'.by = "health" /\ event'.replica = r) =>
              /\ event'.body = [kind |-> "status 200, empty", err |-> NoError,
                                out |-> NoOutput]
              /\ ~event'.called /\ ~event'.sweep.ran
              /\ InFlight(r)' = InFlight(r)
              /\ started' = started
              /\ fs' = fs]_vars

\* /health answered by a replica that does not lead, with an on-demand
\* Export call in flight
C14_Witness ==
    \E r \in Replicas :
        /\ event.by = "health" /\ event.replica = r
        /\ event.body.kind = "status 200, empty"
        /\ main[r] = "acquire"
        /\ InFlight(r) # {}

\* C15: the response of an on-demand POST: when the Export call succeeded
\* the body is the JSON of the output (Response.Message, Response.Code,
\* ExportedFiles); when NewClient or the Export call failed the body is the
\* error's text as one plain-text line, the error being the one NewClient or
\* Export returned; one or the other, and exactly one body per request: it
\* is written on the step that ends the request, and an ended request is
\* never written to again.
C15_PostResponse ==
    [][\A r \in Replicas : \A q \in ReqIds :
          /\ (reqs[r][q].state # "done" /\ reqs'[r][q].state = "done"
                  /\ reqs'[r][q].method = "POST") =>
                /\ event'.by = "handler" /\ event'.replica = r /\ event'.req = q
                /\ IF ~event'.returned
                   THEN /\ UrlParseErr(params.endpoint) # Nil
                        /\ event'.body =
                               [kind |-> "text",
                                err |-> [kind |-> UrlParseErr(params.endpoint),
                                         code |-> Nil, message |-> Nil],
                                out |-> NoOutput]
                   ELSE IF event'.result.err # NoError
                   THEN event'.body = [kind |-> "text", err |-> event'.result.err,
                                       out |-> NoOutput]
                   ELSE /\ event'.body = [kind |-> "json", err |-> NoError,
                                          out |-> event'.result.out]
                        /\ DOMAIN event'.body.out = {"Response", "ExportedFiles"}
                        /\ DOMAIN event'.body.out.Response = {"Message", "Code"}
          /\ reqs[r][q].state = "done" => reqs'[r][q] = reqs[r][q]
          /\ (event'.by = "handler" /\ event'.replica = r /\ event'.req = q
                  /\ event'.body # NoBody) =>
                (reqs[r][q].state # "done" /\ reqs'[r][q].state = "done")]_vars

\* a POST answered with the text of the error Export returned for a remote
\* code other than Success
C15_Witness ==
    /\ event.by = "handler" /\ event.returned
    /\ reqs[event.replica][event.req] = [state |-> "done", method |-> "POST"]
    /\ event.result.err.code = "Error"
    /\ event.body.kind = "text"
    /\ event.body.err = event.result.err

\* C16: with cleanup enabled, every Export call that has returned, to the
\* loop or to the handler, with a result or with an error, is followed by
\* one cleanup sweep.
C16_SweepAfterEveryCall ==
    (event.returned /\ params.dgraphTmp.cleanup) => event.sweep.ran

\* C17: a failing cleanup sweep does not change the reported outcome of the
\* Export call it follows: the response body of the handler and the result
\* line of the loop are those of the call's result alone, as with a sweep
\* that succeeds, and the cleanup error is only logged, after them.
C17_SweepErrorNotReported ==
    (event.returned /\ event.sweep.ran /\ event.sweep.err # Nil) =>
        /\ event.result.err = NoError
        /\ event.by = "handler" =>
              /\ event.body = [kind |-> "json", err |-> NoError,
                               out |-> event.result.out]
              /\ event.lines =
                     <<LogLine("Error", "cleanup", NoError, << >>, event.sweep.err)>>
        /\ event.by = "timer" =>
              /\ event.body = NoBody
              /\ event.lines =
                     <<LogLine("Info", "exported files", NoError,
                               GetFiles(event.result.out), Nil),
                       LogLine("Error", "cleanup", NoError, << >>, event.sweep.err)>>

\* an on-demand call answered with its JSON although the removal of a
\* matching directory failed in the sweep that followed
C17_Witness ==
    /\ event.returned /\ event.by = "handler"
    /\ event.sweep.ran /\ event.sweep.err # Nil
    /\ event.sweep.tried # << >>
    /\ event.body.kind = "json"

\* C18: a failed Export call or a failed cleanup sweep does not stop the
\* service: the step that meets the failure leaves the process running,
\* its contexts uncancelled as they were and its server as it was; the loop
\* that met it is back in its select with its ticker, ready for the next
\* tick, and the requests not yet sent can still be sent.
C18_FailuresDoNotStop ==
    [][\A r \in Replicas :
          (/\ event'.replica = r
           /\ \/ event'.returned /\ event'.result.err # NoError
              \/ event'.sweep.err # Nil) =>
              /\ Running(r) /\ main'[r] = main[r]
              /\ server'[r] = server[r]
              /\ ctxDone'[r] = ctxDone[r]
              /\ leaderCancelled'[r] = leaderCancelled[r]
              /\ tick'[r] = tick[r]
              /\ IF event'.by = "timer" THEN loop'[r] = "select"
                                        ELSE loop'[r] = loop[r]
              /\ \A q \in ReqIds \ {event'.req} :
                    reqs[r][q].state = "unsent" => reqs'[r][q].state = "unsent"]_vars

\* the leader's loop back in its select after a failed call, with the next
\* tick waiting to be honoured and a request still to come
C18_Witness ==
    \E r \in Replicas :
        /\ event.returned /\ event.by = "timer" /\ event.replica = r
        /\ event.result.err # NoError
        /\ main[r] = "renew" /\ ~LeaderCtxDone(r)
        /\ loop[r] = "select" /\ tick[r] = 1 /\ started[r] < MaxTimerRuns
        /\ server[r] = "listening"
        /\ \E q \in ReqIds : reqs[r][q].state = "unsent"

\* C19: a malformed endpoint is an unrecoverable startup failure: a process
\* given one ends at startup, before its server listens and before its
\* elector tries to acquire the lease; it never serves and never leads.
C19_MalformedEndpointFatalAtStartup ==
    UrlParseErr(params.endpoint) # Nil =>
        \A r \in Replicas :
            /\ main[r] \in {"absent", "startup", "fatal"}
            /\ server[r] = "off"
            /\ holder # r

\* C20: the configuration is validated before use: a period that is not
\* positive is rejected and never reaches the timer loop, so exportLoop is
\* only ever entered with a positive period.
C20_LoopStartedWithPositivePeriod ==
    \A r \in Replicas : loop[r] # "none" => params.period > 0

\* C21: the outcome of one Export call: it is a success with the export
\* output if and only if the transport call succeeded and the remote's code
\* is "Success"; for any other code it is a failure that carries the
\* remote's code and message, with no output and no file list; a transport
\* error is returned as the failure, unchanged.
C21_OutcomeClassification ==
    event.returned =>
        LET reply == event.reply
            res == event.result
        IN  /\ (res.err = NoError) <=> (reply.err = Nil /\ reply.Code = "Success")
            /\ res.err = NoError =>
                  res.out = [Response |-> [Message |-> reply.Message,
                                           Code |-> reply.Code],
                             ExportedFiles |-> reply.ExportedFiles]
            /\ reply.err # Nil =>
                  /\ res.err = [kind |-> reply.err, code |-> Nil, message |-> Nil]
                  /\ res.out = NoOutput
            /\ (reply.err = Nil /\ reply.Code # "Success") =>
                  /\ res.err.code = reply.Code
                  /\ res.err.message = reply.Message
                  /\ res.out = NoOutput
                  /\ GetFiles(res.out) = << >>

\* a call answered without transport error, with the code "success" in
\* lower case and a file list: a failure carrying that code, with no list
C21_Witness ==
    /\ event.returned
    /\ event.reply.err = Nil
    /\ event.reply.Code = "success"
    /\ event.reply.ExportedFiles # << >>
    /\ event.result.err.code = "success"
    /\ event.result.out = NoOutput

\* C22: gaining leadership does not itself start an Export call: the loop
\* started by OnStartedLeading creates its ticker with no tick waiting and
\* no call made, and its first call starts only in its select, on a tick
\* that this ticker has fired since.
C22_NoCallOnGainingLeadership ==
    [][\A r \in Replicas :
          /\ (main[r] = "acquire" /\ main'[r] = "renew") =>
                (loop'[r] = "start" /\ started'[r] = 0 /\ ~event'.called)
          /\ (loop[r] = "start" /\ loop'[r] = "select") =>
                (tick'[r] = 0 /\ started'[r] = 0 /\ ~event'.called)
          /\ (started[r] = 0 /\ started'[r] = 1) =>
                (loop[r] = "select" /\ tick[r] = 1 /\ tick'[r] = 0)]_vars

\* the leader's loop waiting in its select for the first tick, no call made
C22_Witness ==
    \E r \in Replicas :
        /\ main[r] = "renew" /\ holder = r
        /\ loop[r] = "select"
        /\ tick[r] = 0 /\ started[r] = 0

\* C23: no automatic retry: a step starts at most one Export call, and
\* only for a trigger: a tick the loop takes from its ticker, or a request
\* that arrives; the step on which a call returns, failed or not, ends that
\* call and starts none, so the next call waits for the next tick or the
\* next request.
C23_NoRetry ==
    [][\A r \in Replicas :
          LET new == InFlight(r)' \ InFlight(r)
          IN  /\ Cardinality(new) <= 1
              /\ 0 \in new => (tick[r] = 1 /\ tick'[r] = 0
                                  /\ started'[r] = started[r] + 1)
              /\ \A q \in new \ {0} : reqs[r][q].state = "unsent"
              /\ 0 \notin new => started'[r] = started[r]
              /\ (event'.returned /\ event'.replica = r) =>
                    /\ new = {}
                    /\ InFlight(r)' # InFlight(r)
                    /\ ~event'.called]_vars

\* a failed call of the loop has returned: the loop waits in its select
\* with no tick to take, one call made so far and none in flight
C23_Witness ==
    \E r \in Replicas :
        /\ event.returned /\ event.by = "timer" /\ event.replica = r
        /\ event.result.err # NoError
        /\ loop[r] = "select" /\ tick[r] = 0
        /\ started[r] = 1
        /\ InFlight(r) = {}

\* C24: when listing the root fails, the sweep returns that error and
\* removes nothing: no removal is tried and the filesystem is as before.
C24_ListErrorRemovesNothing ==
    (event.sweep.ran /\ event.sweep.err = "readdir failed") =>
        /\ fs[event.replica] = event.sweep.before
        /\ event.sweep.tried = << >>

\* the listing of /tmp failed in a sweep with pattern *, and the directories
\* export123 and keep under /tmp are still there
C24_Witness ==
    /\ event.sweep.ran /\ event.sweep.err = "readdir failed"
    /\ params.dgraphTmp.prefix = "/tmp"
    /\ params.dgraphTmp.pattern = P_star
    /\ { Dir(<<"/tmp", N_export123>>), Dir(<<"/tmp", N_keep>>) }
           \subseteq event.sweep.before
    /\ { Dir(<<"/tmp", N_export123>>), Dir(<<"/tmp", N_keep>>) }
           \subseteq fs[event.replica]

\* C25: when the removal of a matched directory fails, the sweep returns
\* the error of that first failing removal: the matched directories listed
\* before it have been removed with what they held and stay removed, the
\* failing one and the matched directories listed after it are left, and
\* no removal is tried after the failing one.
C25_FirstRemovalFailureStops ==
    (event.sweep.ran /\ event.sweep.err = "remove failed") =>
        LET before == event.sweep.before
            after == fs[event.replica]
            root == params.dgraphTmp.prefix
            tried == event.sweep.tried
            listed == ReadDir(before, root)
            Matched(e) ==
                e.isDir /\ Match(params.dgraphTmp.pattern, EntryName(e)).match
            failed == tried[Len(tried)]
            at == CHOOSE i \in DOMAIN listed : listed[i].path = failed
            upTo == SelectSeq(SubSeq(listed, 1, at), Matched)
            removed == {tried[i] : i \in 1..(Len(tried) - 1)}
        IN  /\ tried # << >>
            /\ Dir(failed) \in before
            /\ tried = [i \in DOMAIN upTo |-> upTo[i].path]
            /\ after = {e \in before : \A p \in removed : ~IsPrefix(p, e.path)}
            /\ Dir(failed) \in after
            /\ \A i \in DOMAIN listed :
                   (i > at /\ Matched(listed[i])) =>
                       (listed[i] \in after /\ listed[i].path \notin removed)

\* a sweep of /tmp with pattern *: export1+ removed with what it held, the
\* removal of export123 failed, and keep, listed after it, was not tried
C25_Witness ==
    /\ event.sweep.ran /\ event.sweep.err = "remove failed"
    /\ params.dgraphTmp.prefix = "/tmp"
    /\ params.dgraphTmp.pattern = P_star
    /\ event.sweep.tried = << <<"/tmp", N_export1plus>>, <<"/tmp", N_export123>> >>
    /\ Dir(<<"/tmp", N_export1plus, N_keep>>) \in event.sweep.before
    /\ Dir(<<"/tmp", N_keep>>) \in event.sweep.before
    /\ fs[event.replica] \cap { Dir(<<"/tmp", N_export1plus>>),
                                Dir(<<"/tmp", N_export1plus, N_keep>>),
                                Dir(<<"/tmp", N_export123>>),
                                Dir(<<"/tmp", N_keep>>) }
           = { Dir(<<"/tmp", N_export123>>), Dir(<<"/tmp", N_keep>>) }

\* C26: with the cleanup flag disabled no tick, leadership change or
\* request ever removes a filesystem entry: no sweep is run, and every
\* replica's filesystem stays as it was found.
C26_NoSweepWhenDisabled ==
    ~params.dgraphTmp.cleanup =>
        /\ ~event.sweep.ran
        /\ \A r \in Replicas : fs[r] = TmpContent

\* cleanup disabled: an on-demand call has returned its files on a replica
\* that has lost leadership after a call of its loop, a matching directory
\* still in place
C26_Witness ==
    \E r \in Replicas :
        /\ ~params.dgraphTmp.cleanup
        /\ event.returned /\ event.by = "handler" /\ event.replica = r
        /\ event.result.err = NoError
        /\ started[r] >= 1
        /\ leaderCancelled[r]
        /\ Dir(<<"/tmp", N_export1plus>>) \in fs[r]

\* C27: a request to /api/v1/export with a method other than POST is
\* answered 'Method not allowed' and has no side effect: it starts no
\* Export call and runs no cleanup sweep, whatever the cleanup flag.
C27_NonPostHasNoEffect ==
    \A r \in Replicas : \A q \in ReqIds :
        (event.by = "handler" /\ event.replica = r /\ event.req = q
             /\ reqs[r][q].method # "POST") =>
            /\ event.body = NotAllowedBody
            /\ ~event.called /\ ~event.returned
            /\ ~event.sweep.ran

\* C28: when the HTTP server stops, main's ctx is cancelled, so the elector
\* and the loop end: from then on, eventually and for good, the process
\* does not run, as leader or otherwise, and its loop starts no Export
\* call.
C28_ServerStopEndsProcess ==
    \A r \in Replicas :
        (server[r] = "stopped") ~>
            [](/\ ~Running(r)
               /\ loop[r] \in {"none", "dead"}
               /\ ~(event.called /\ event.by = "timer" /\ event.replica = r))

\* the server of the leader has stopped and ctx is cancelled, while the
\* elector still leads and the loop waits in its select
C28_Witness ==
    \E r \in Replicas :
        /\ server[r] = "stopped" /\ ctxDone[r]
        /\ main[r] = "renew" /\ holder = r
        /\ loop[r] = "select"

\* C29: leadership is single-term per process: the elector runs once, so a
\* process that has lost leadership never acquires or leads again, main
\* only going on to its end; a loop is started only in a process that had
\* none, and a loop that has ended stays ended: at most one loop per process.
C29_SingleTerm ==
    [][\A r \in Replicas :
          /\ leaderCancelled[r] => main'[r] \notin {"startup", "acquire", "renew"}
          /\ main[r] \in {"stopping", "exited", "fatal", "panic"} =>
                main'[r] \in {main[r], "exited", "fatal", "panic"}
          /\ (loop'[r] = "start" /\ loop[r] # "start") =>
                (loop[r] = "none" /\ main[r] = "acquire" /\ ~leaderCancelled[r])
          /\ loop[r] \in {"returned", "dead"} => loop'[r] \in {loop[r], "dead"}]_vars

\* a process that has lost leadership and whose loop has returned is still
\* alive while the lease is free again: it does not take it
C29_Witness ==
    \E r \in Replicas :
        /\ leaderCancelled[r]
        /\ main[r] = "stopping"
        /\ loop[r] = "returned"
        /\ started[r] >= 1
        /\ holder = 0

=============================================================================
